---------------------------- MODULE Spec2Model ----------------------------
(***************************************************************************)
(* A model of schema.go: GenerateSchema, the recursive mapping of a Go     *)
(* reflect.Type to a JSON Schema tree, and getTagValue, the coercion of a  *)
(* struct tag's text.                                                      *)
(*                                                                         *)
(* A Go string is a sequence of one-character strings, so that             *)
(* strings.Split, strconv.Atoi and json.Unmarshal are computed character   *)
(* by character.  A Go pointer or interface that may be nil is a sequence  *)
(* of length 0 (nil) or 1 (the value).                                     *)
(***************************************************************************)
EXTENDS Integers, Sequences, FiniteSets, TLC

VARIABLES
    typ,      \* the reflect.Type GenerateSchema is called on
    result,   \* what the call returned: [schema, err]
    pc,       \* "start" before the call, "done" after it
    defs,     \* the named (possibly self-referencing) types of the walk
    stack,    \* the call stack of the recursive walk, innermost frame last
    ret,      \* the value the innermost finished call returned
    wpc       \* "run" | "done" | "overflow" (the walk), "idle" outside it

vars == <<typ, result, pc, defs, stack, ret, wpc>>

---------------------------------------------------------------------------
(* Bounds of the model.                                                    *)

\* How many pointer/slice/array/map/struct wrappers an input type nests.
MaxWrap == 1

\* How many fields an input struct declares.
MaxFields == 2

\* Go's goroutine stack is finite: the frames the walk may hold before the
\* runtime ends the program with a stack overflow.
MaxStack == 7

---------------------------------------------------------------------------
(* Text.                                                                   *)

Digits == {"0", "1", "2", "3", "4", "5", "6", "7", "8", "9"}

IsDigit(c) == c \in Digits

DigitVal(c) ==
    CASE c = "0" -> 0 [] c = "1" -> 1 [] c = "2" -> 2 [] c = "3" -> 3
      [] c = "4" -> 4 [] c = "5" -> 5 [] c = "6" -> 6 [] c = "7" -> 7
      [] c = "8" -> 8 [] c = "9" -> 9

\* The characters json.Unmarshal skips around a value.
IsSpace(c) == c \in {" ", "\t", "\n", "\r"}

Min(S) == CHOOSE x \in S : \A y \in S : x <= y

\* The first index >= i of t that holds no digit (Len(t) + 1 at the end).
DigitsEnd(t, i) ==
    Min({j \in i..(Len(t) + 1) : j = Len(t) + 1 \/ ~IsDigit(t[j])})

\* The first index >= i of t that holds no white space.
SpaceEnd(t, i) ==
    Min({j \in i..(Len(t) + 1) : j = Len(t) + 1 \/ ~IsSpace(t[j])})

RECURSIVE NumVal(_, _, _)
\* The decimal value of the digits t[i..j-1].
NumVal(t, i, j) ==
    IF j <= i THEN 0 ELSE 10 * NumVal(t, i, j - 1) + DigitVal(t[j - 1])

RECURSIVE Pow10(_)
Pow10(n) == IF n <= 0 THEN 1 ELSE 10 * Pow10(n - 1)

\* strings.Split(t, ","): the pieces between the commas, at least one piece.
RECURSIVE Split(_)
Split(t) ==
    LET commas == {j \in 1..Len(t) : t[j] = ","}
    IN  IF commas = {} THEN <<t>>
        ELSE LET j == Min(commas)
             IN  <<SubSeq(t, 1, j - 1)>> \o Split(SubSeq(t, j + 1, Len(t)))

\* strconv.Atoi(t): an optional sign, then decimal digits and nothing else.
\* Tag texts are at most nine characters long (TagTexts), so the digits
\* never leave the range of an int and Atoi's range error cannot occur.
Atoi(t) ==
    LET signed == Len(t) > 0 /\ t[1] \in {"+", "-"}
        first  == IF signed THEN 2 ELSE 1
        n      == NumVal(t, first, Len(t) + 1)
    IN  IF first > Len(t) \/ DigitsEnd(t, first) # Len(t) + 1
        THEN [ok |-> FALSE, n |-> 0]
        ELSE [ok |-> TRUE, n |-> IF t[1] = "-" THEN 0 - n ELSE n]

---------------------------------------------------------------------------
(* Values of type interface{}: what a tag's text is coerced to.  k is the  *)
(* dynamic type: "string" (s), "number" (m * 10^e, m without trailing      *)
(* zeros), "bool" (m = 1 for true) or "nil".                               *)

StringValue(t) == [k |-> "string", s |-> t, m |-> 0, e |-> 0]
BoolValue(b) == [k |-> "bool", s |-> <<>>, m |-> IF b THEN 1 ELSE 0, e |-> 0]
NilValue == [k |-> "nil", s |-> <<>>, m |-> 0, e |-> 0]

RECURSIVE Normalize(_, _)
\* m * 10^e with the trailing zeros of m moved into e.
Normalize(m, e) ==
    IF m = 0 THEN [m |-> 0, e |-> 0]
    ELSE IF m % 10 = 0 THEN Normalize(m \div 10, e + 1)
    ELSE [m |-> m, e |-> e]

NumberValue(m, e) ==
    LET n == Normalize(m, e)
    IN  [k |-> "number", s |-> <<>>, m |-> n.m, e |-> n.e]

IntValue(n) == NumberValue(n, 0)

ParseError == [ok |-> FALSE, v |-> NilValue]
Parsed(v) == [ok |-> TRUE, v |-> v]

\* The exponent digits t[e0..e1-1] of a JSON number that ends at j.
NumExpDigits(t, j, mant, fracN, k, e0, e1) ==
    IF e1 = e0 \/ e1 # j + 1 THEN ParseError
    ELSE Parsed(NumberValue(mant,
            (IF t[k + 1] = "-" THEN 0 - NumVal(t, e0, e1) ELSE NumVal(t, e0, e1))
                - fracN))

\* The end, or the exponent ([eE] [+-]? [0-9]+), of a JSON number at k,
\* after the mantissa mant with fracN digits behind the point.
NumExp(t, j, mant, fracN, k) ==
    IF k = j + 1 THEN Parsed(NumberValue(mant, 0 - fracN))
    ELSE IF t[k] \notin {"e", "E"} THEN ParseError
    ELSE IF k + 1 <= j /\ t[k + 1] \in {"+", "-"}
    THEN NumExpDigits(t, j, mant, fracN, k, k + 2, DigitsEnd(t, k + 2))
    ELSE NumExpDigits(t, j, mant, fracN, k, k + 1, DigitsEnd(t, k + 1))

\* The fraction digits t[f0..f1-1] of a JSON number: at least one.
NumFrac(t, j, sign, ip, f0, f1) ==
    IF f1 = f0 THEN ParseError
    ELSE NumExp(t, j, sign * (ip * Pow10(f1 - f0) + NumVal(t, f0, f1)),
                f1 - f0, f1)

\* The integer digits t[i0..i1-1] of a JSON number: 0, or digits that do
\* not start with 0.
NumInt(t, j, sign, i0, i1) ==
    IF ~(i1 > i0 /\ (t[i0] = "0" => i1 = i0 + 1)) THEN ParseError
    ELSE IF i1 <= j /\ t[i1] = "."
    THEN NumFrac(t, j, sign, NumVal(t, i0, i1), i1 + 1, DigitsEnd(t, i1 + 1))
    ELSE NumExp(t, j, sign * NumVal(t, i0, i1), 0, i1)

\* A JSON number that fills t[i..j]: -? (0 | [1-9][0-9]*) (. [0-9]+)?
\* ([eE] [+-]? [0-9]+)?
JSONNumber(t, i, j) ==
    IF t[i] = "-" THEN NumInt(t, j, 0 - 1, i + 1, DigitsEnd(t, i + 1))
    ELSE NumInt(t, j, 1, i, DigitsEnd(t, i))

\* A JSON string that fills t[i..j]: quoted, with no quote, backslash or
\* control character inside.
JSONString(t, i, j) ==
    IF j > i /\ t[i] = "\"" /\ t[j] = "\""
       /\ \A x \in (i + 1)..(j - 1) : t[x] \notin {"\"", "\\", "\t", "\n", "\r"}
    THEN Parsed(StringValue(SubSeq(t, i + 1, j - 1)))
    ELSE ParseError

\* The last index <= j of t, not below i - 1, that holds no white space.
SpaceStart(t, i, j) ==
    LET S == {x \in i..j : ~IsSpace(t[x])}
    IN  IF S = {} THEN i - 1 ELSE CHOOSE x \in S : \A y \in S : y <= x

\* The JSON value that fills t[i..j], i > j when there is none.
JSONValue(t, i, j) ==
    IF i > j THEN ParseError
    ELSE IF SubSeq(t, i, j) = <<"t", "r", "u", "e">> THEN Parsed(BoolValue(TRUE))
    ELSE IF SubSeq(t, i, j) = <<"f", "a", "l", "s", "e">> THEN Parsed(BoolValue(FALSE))
    ELSE IF SubSeq(t, i, j) = <<"n", "u", "l", "l">> THEN Parsed(NilValue)
    ELSE IF t[i] = "\"" THEN JSONString(t, i, j)
    ELSE IF t[i] = "-" \/ IsDigit(t[i]) THEN JSONNumber(t, i, j)
    ELSE ParseError

\* json.Unmarshal([]byte(t), &v) into an interface{}: one JSON value with
\* white space around it.  Texts hold no '[' and no '{' (TagTexts), so the
\* value is a number, a string, true, false or null.
JSONUnmarshal(t) ==
    JSONValue(t, SpaceEnd(t, 1), SpaceStart(t, SpaceEnd(t, 1), Len(t)))

---------------------------------------------------------------------------
(* Types (reflect.Type).  kind is reflect's Kind; name is the type's       *)
(* identity when it is a named type ("" for an unnamed one); elem is the   *)
(* element type of a pointer, slice, array or map; fields are a struct's   *)
(* fields in declaration order, each [name, type, tag].  A tag is the      *)
(* sequence of the key:"value" pairs of the field's struct tag.  kind      *)
(* "ref" stands for the pointer to a named type of defs.                   *)

Leaf(k) == [kind |-> k, name |-> "", elem |-> <<>>, fields |-> <<>>]
PtrTo(t) == [kind |-> "ptr", name |-> "", elem |-> <<t>>, fields |-> <<>>]
SliceOf(t) == [kind |-> "slice", name |-> "", elem |-> <<t>>, fields |-> <<>>]
ArrayOf(t) == [kind |-> "array", name |-> "", elem |-> <<t>>, fields |-> <<>>]
MapOf(t) == [kind |-> "map", name |-> "", elem |-> <<t>>, fields |-> <<>>]
StructOf(fs) == [kind |-> "struct", name |-> "", elem |-> <<>>, fields |-> fs]
Named(n, t) == [t EXCEPT !.name = n]
Field(n, t, tag) == [name |-> n, type |-> t, tag |-> tag]
Tag(k, v) == [key |-> k, val |-> v]

\* time.Time: wall uint64, ext int64, loc *Location.
timeType ==
    Named("time.Time", StructOf(<<
        Field(<<"w", "a", "l", "l">>, Leaf("uint64"), <<>>),
        Field(<<"e", "x", "t">>, Leaf("int64"), <<>>),
        Field(<<"l", "o", "c">>,
              PtrTo(Named("time.Location", StructOf(<<
                  Field(<<"n", "a", "m", "e">>, Leaf("string"), <<>>)>>))),
              <<>>)>>))

\* net.IP: a named []byte.
ipType == Named("net.IP", SliceOf(Leaf("uint8")))

\* url.URL: Scheme, Opaque string, User *Userinfo, Host, Path string, ...
uriType ==
    Named("url.URL", StructOf(<<
        Field(<<"S", "c", "h", "e", "m", "e">>, Leaf("string"), <<>>),
        Field(<<"O", "p", "a", "q", "u", "e">>, Leaf("string"), <<>>),
        Field(<<"U", "s", "e", "r">>,
              PtrTo(Named("url.Userinfo", StructOf(<<
                  Field(<<"u", "s", "e", "r", "n", "a", "m", "e">>,
                        Leaf("string"), <<>>)>>))),
              <<>>),
        Field(<<"H", "o", "s", "t">>, Leaf("string"), <<>>),
        Field(<<"F", "o", "r", "c", "e", "Q", "u", "e", "r", "y">>,
              Leaf("bool"), <<>>)>>))

\* f.Tag.Lookup(key): the value of the first pair with that key.
Lookup(tag, key) ==
    LET S == {i \in 1..Len(tag) : tag[i].key = key}
    IN  IF S = {} THEN [ok |-> FALSE, v |-> <<>>]
        ELSE [ok |-> TRUE, v |-> tag[Min(S)].val]

\* f.Tag.Get(key): the value, or "" when the key is absent.
Get(tag, key) == Lookup(tag, key).v

---------------------------------------------------------------------------
(* Schema.                                                                 *)

\* &Schema{}: every field at its zero value.
EmptySchema ==
    [Type |-> "", Description |-> <<>>, Items |-> <<>>, Properties |-> <<>>,
     Required |-> <<>>, Format |-> <<>>, Enum |-> <<>>, Default |-> <<>>,
     Example |-> <<>>, Minimum |-> <<>>, ExclusiveMinimum |-> <<>>,
     Maximum |-> <<>>, ExclusiveMaximum |-> <<>>, MultipleOf |-> 0,
     MinLength |-> <<>>, MaxLength |-> <<>>, Pattern |-> <<>>,
     MinItems |-> <<>>, MaxItems |-> <<>>, UniqueItems |-> FALSE,
     MinProperties |-> <<>>, MaxProperties |-> <<>>]

\* What GenerateSchema returns: (schema, nil) or (nil, err).
Ok(s) == [schema |-> <<s>>, err |-> ""]
Fail(e) == [schema |-> <<>>, err |-> e]

\* getTagValue that parses every text as a literal, whatever the schema's
\* type.
getTagValueAlwaysParsed(s, value) == JSONUnmarshal(value)

\* getTagValue(s, value).
getTagValue(s, value) ==
    IF s.Type = "string" THEN Parsed(StringValue(value))
    ELSE JSONUnmarshal(value)

\* An interface{} field set to v: nil when v is the JSON null.
Iface(v) == IF v.k = "nil" THEN <<>> ELSE <<v>>

RECURSIVE EnumLoop(_, _, _)

\* One pass of the loop over the enum tag's pieces, given what getTagValue
\* returned: an error ends the call, else s.Enum grows by the value.
EnumNext(s, pieces, i, parsed) ==
    IF ~parsed.ok THEN Fail("json")
    ELSE EnumLoop([s EXCEPT !.Enum = <<s.Enum[1] \o <<parsed.v>>>>],
                  pieces, i + 1)

\* The loop over the enum tag's pieces from piece i on.
EnumLoop(s, pieces, i) ==
    IF i > Len(pieces) THEN Ok(s)
    ELSE EnumNext(s, pieces, i, getTagValue(s, pieces[i]))

\* The enum tag.
EnumTag(s, t) == EnumLoop([s EXCEPT !.Enum = <<<<>>>>], Split(t), 1)

\* The default or example tag, given what getTagValue returned.
ValueSet(s, key, v) ==
    IF ~v.ok THEN Fail("json")
    ELSE IF key = "default" THEN Ok([s EXCEPT !.Default = Iface(v.v)])
    ELSE Ok([s EXCEPT !.Example = Iface(v.v)])

\* The default and example tags.
ValueTag(s, key, t) == ValueSet(s, key, getTagValue(s, t))

IntKeys ==
    {"minimum", "exclusiveMinimum", "maximum", "exclusiveMaximum",
     "multipleOf", "minLength", "maxLength", "minItems", "maxItems",
     "minProperties", "maxProperties"}

\* The schema field an integer tag sets.
SetInt(s, key, n) ==
    CASE key = "minimum" -> [s EXCEPT !.Minimum = <<n>>]
      [] key = "exclusiveMinimum" -> [s EXCEPT !.ExclusiveMinimum = <<n>>]
      [] key = "maximum" -> [s EXCEPT !.Maximum = <<n>>]
      [] key = "exclusiveMaximum" -> [s EXCEPT !.ExclusiveMaximum = <<n>>]
      [] key = "multipleOf" -> [s EXCEPT !.MultipleOf = n]
      [] key = "minLength" -> [s EXCEPT !.MinLength = <<n>>]
      [] key = "maxLength" -> [s EXCEPT !.MaxLength = <<n>>]
      [] key = "minItems" -> [s EXCEPT !.MinItems = <<n>>]
      [] key = "maxItems" -> [s EXCEPT !.MaxItems = <<n>>]
      [] key = "minProperties" -> [s EXCEPT !.MinProperties = <<n>>]
      [] key = "maxProperties" -> [s EXCEPT !.MaxProperties = <<n>>]

\* An integer tag, given what strconv.Atoi returned.
IntSet(s, key, a) == IF ~a.ok THEN Fail("atoi") ELSE Ok(SetInt(s, key, a.n))

\* An integer tag: strconv.Atoi of its text, or the call ends.
IntTag(s, key, t) == IntSet(s, key, Atoi(t))

\* The body of the block of the tag key, whose text is v.
SetTag(s, key, v) ==
    CASE key = "description" -> Ok([s EXCEPT !.Description = v])
      [] key = "format" -> Ok([s EXCEPT !.Format = v])
      [] key = "enum" -> EnumTag(s, v)
      [] key \in {"default", "example"} -> ValueTag(s, key, v)
      [] key \in IntKeys -> IntTag(s, key, v)
      [] key = "pattern" -> Ok([s EXCEPT !.Pattern = v])
      [] key = "uniqueItems" ->
            Ok([s EXCEPT !.UniqueItems = (v = <<"t", "r", "u", "e">>)])

\* One `if t, ok := f.Tag.Lookup(key); ok { ... }` block.
ApplyTag(s, tag, key) ==
    IF ~Lookup(tag, key).ok THEN Ok(s) ELSE SetTag(s, key, Get(tag, key))

\* The tag blocks in the order of the code.
TagOrder ==
    <<"description", "format", "enum", "default", "example", "minimum",
      "exclusiveMinimum", "maximum", "exclusiveMaximum", "multipleOf",
      "minLength", "maxLength", "pattern", "minItems", "maxItems",
      "uniqueItems", "minProperties", "maxProperties">>

RECURSIVE ApplyFrom(_, _, _)

\* After block i returned r: its error ends the call, else the next block.
ApplyNext(r, tag, i) ==
    IF r.err # "" THEN r ELSE ApplyFrom(r.schema[1], tag, i + 1)

\* The tag blocks from block i on.
ApplyFrom(s, tag, i) ==
    IF i > Len(TagOrder) THEN Ok(s)
    ELSE ApplyNext(ApplyTag(s, tag, TagOrder[i]), tag, i)

\* All tag blocks of one field, applied to the field's schema s.
ApplyTags(s, tag) == ApplyFrom(s, tag, 1)

\* jsonTags := strings.Split(f.Tag.Get("json"), ",").
JsonTags(f) == Split(Get(f.tag, "json"))

\* name := f.Name; if len(jsonTags) > 0 { name = jsonTags[0] }.
PropertyName(f) ==
    IF Len(JsonTags(f)) > 0 THEN JsonTags(f)[1] ELSE f.name

\* optional: some component of jsonTags[1:] is "omitempty".
Optional(f) ==
    \E i \in 2..Len(JsonTags(f)) :
        JsonTags(f)[i] = <<"o", "m", "i", "t", "e", "m", "p", "t", "y">>

\* properties[name] = s.
Put(properties, name, s) ==
    [k \in DOMAIN properties \cup {name} |->
        IF k = name THEN s ELSE properties[k]]

\* The end of an iteration that puts every field's name in required.
FieldStoreAllRequired(f, a, properties, required) ==
    IF a.err # ""
    THEN [err |-> a.err, properties |-> <<>>, required |-> <<>>]
    ELSE [err |-> "",
          properties |-> Put(properties, PropertyName(f), a.schema[1]),
          required |-> Append(required, PropertyName(f))]

\* The end of one iteration of the field loop, given what the tag blocks
\* returned: an error ends the call, else the schema is in properties under
\* the field's name, and the name in required unless the field is optional.
FieldStore(f, a, properties, required) ==
    IF a.err # ""
    THEN [err |-> a.err, properties |-> <<>>, required |-> <<>>]
    ELSE [err |-> "",
          properties |-> Put(properties, PropertyName(f), a.schema[1]),
          required |-> IF Optional(f) THEN required
                       ELSE Append(required, PropertyName(f))]

\* One iteration of the field loop, given what GenerateSchema(f.Type)
\* returned: the error ends the call, else the tags are applied and the
\* schema is stored under the field's name.  (The code stores the pointer
\* before the tags mutate the schema it points to: the map holds the tagged
\* schema either way.)
FieldStep(f, r, properties, required) ==
    IF r.err # "" THEN [err |-> r.err, properties |-> <<>>, required |-> <<>>]
    ELSE FieldStore(f, ApplyTags(r.schema[1], f.tag), properties, required)

\* The end of the struct branch that sets properties and required always.
StructFinalAlwaysSet(properties, required) ==
    [EmptySchema EXCEPT !.Type = "object",
                        !.Properties = <<properties>>,
                        !.Required = <<required>>]

\* After the loop: properties and required are set only when not empty.
StructFinal(properties, required) ==
    [EmptySchema EXCEPT
        !.Type = "object",
        !.Properties = IF Cardinality(DOMAIN properties) > 0
                       THEN <<properties>> ELSE <<>>,
        !.Required = IF Len(required) > 0 THEN <<required>> ELSE <<>>]

\* The kind switch with the map case recursing like the slice case.
KindCaseMapRecurses(kind) ==
    CASE kind = "struct" -> "struct"
      [] kind \in {"slice", "array", "map"} -> "seq"
      [] kind \in {"int", "int8", "int16", "int32", "int64"} -> "int"
      [] kind \in {"uint", "uint8", "uint16", "uint32", "uint64"} -> "uint"
      [] kind \in {"float32", "float64"} -> "float"
      [] kind = "bool" -> "bool"
      [] kind = "string" -> "string"
      [] kind = "ptr" -> "ptr"
      [] OTHER -> "default"

\* The case of the kind switch a kind falls in.
KindCase(kind) ==
    CASE kind = "struct" -> "struct"
      [] kind = "map" -> "map"
      [] kind \in {"slice", "array"} -> "seq"
      [] kind \in {"int", "int8", "int16", "int32", "int64"} -> "int"
      [] kind \in {"uint", "uint8", "uint16", "uint32", "uint64"} -> "uint"
      [] kind \in {"float32", "float64"} -> "float"
      [] kind = "bool" -> "bool"
      [] kind = "string" -> "string"
      [] kind = "ptr" -> "ptr"
      [] OTHER -> "default"

\* The special types: the schema returned for one, or none.
IPSchema == [EmptySchema EXCEPT !.Type = "string", !.Format = <<"i", "p", "v", "4">>]
TimeSchema ==
    [EmptySchema EXCEPT !.Type = "string",
                        !.Format = <<"d", "a", "t", "e", "-", "t", "i", "m", "e">>]
URISchema == [EmptySchema EXCEPT !.Type = "string", !.Format = <<"u", "r", "i">>]

\* The unsigned case without its minimum.
UintSchemaNoMinimum == [EmptySchema EXCEPT !.Type = "integer"]

\* The unsigned case: min := 0; &Schema{Type: "integer", Minimum: &min}.
UintSchema == [EmptySchema EXCEPT !.Type = "integer", !.Minimum = <<0>>]

\* The schema of a kind that needs no recursion.
ScalarSchema(case) ==
    CASE case = "int" -> [EmptySchema EXCEPT !.Type = "integer"]
      [] case = "uint" -> UintSchema
      [] case = "float" -> [EmptySchema EXCEPT !.Type = "number"]
      [] case = "bool" -> [EmptySchema EXCEPT !.Type = "boolean"]
      [] case = "string" -> [EmptySchema EXCEPT !.Type = "string"]
      [] case = "map" -> EmptySchema

\* The slice/array case that goes on without the element's schema when
\* the element's call failed.
SeqCaseDropsError(r) ==
    IF r.err # "" THEN Ok([EmptySchema EXCEPT !.Type = "array"])
    ELSE Ok([EmptySchema EXCEPT !.Type = "array", !.Items = <<r.schema[1]>>])

\* The slice/array case that sets items and leaves the type unset.
SeqCaseNoType(r) ==
    IF r.err # "" THEN Fail(r.err)
    ELSE Ok([EmptySchema EXCEPT !.Items = <<r.schema[1]>>])

\* The slice/array case, given what GenerateSchema(t.Elem()) returned.
SeqCase(r) ==
    IF r.err # "" THEN Fail(r.err)
    ELSE Ok([EmptySchema EXCEPT !.Type = "array", !.Items = <<r.schema[1]>>])

\* The pointer case that wraps the target's schema as an element's.
PtrCaseWraps(r) ==
    IF r.err # "" THEN Fail(r.err)
    ELSE Ok([EmptySchema EXCEPT !.Type = "array", !.Items = <<r.schema[1]>>])

\* The pointer case: return GenerateSchema(t.Elem()).
PtrCase(r) == r

\* The check made against byteSliceType, the unnamed []byte.
IsByteSliceType(t) == t = SliceOf(Leaf("uint8"))

\* if t == ipType: the check made before the kind switch.
IsIPType(t) == t = ipType

\* The special cases of the struct branch: the schema, or none.
StructSpecial(t) ==
    IF t = timeType THEN <<TimeSchema>>
    ELSE IF t = uriType THEN <<URISchema>>
    ELSE <<>>

RECURSIVE GenerateSchema(_)
RECURSIVE StructLoop(_, _, _, _)

\* After the iteration of field i ended in st: its error ends the call,
\* else the loop goes on.
StructNext(fields, i, st) ==
    IF st.err # "" THEN Fail(st.err)
    ELSE StructLoop(fields, i + 1, st.properties, st.required)

\* The field loop from field i on.
StructLoop(fields, i, properties, required) ==
    IF i > Len(fields) THEN Ok(StructFinal(properties, required))
    ELSE StructNext(fields, i,
            FieldStep(fields[i], GenerateSchema(fields[i].type),
                      properties, required))

\* GenerateSchema(t), for a type that holds no reference to a named type
\* of defs.
GenerateSchema(t) ==
    IF IsIPType(t) THEN Ok(IPSchema)
    ELSE CASE KindCase(t.kind) = "struct" ->
                IF StructSpecial(t) # <<>> THEN Ok(StructSpecial(t)[1])
                ELSE StructLoop(t.fields, 1, <<>>, <<>>)
           [] KindCase(t.kind) = "seq" -> SeqCase(GenerateSchema(t.elem[1]))
           [] KindCase(t.kind) = "ptr" -> PtrCase(GenerateSchema(t.elem[1]))
           [] KindCase(t.kind) = "default" -> Fail("unsupported")
           [] OTHER -> Ok(ScalarSchema(KindCase(t.kind)))

---------------------------------------------------------------------------
(* The input types.                                                        *)

\* Every kind of reflect that has no element type the code reads.
LeafKinds ==
    {"bool", "int", "int8", "int16", "int32", "int64", "uint", "uint8",
     "uint16", "uint32", "uint64", "uintptr", "float32", "float64",
     "complex64", "complex128", "chan", "func", "interface", "string",
     "unsafe.Pointer"}

LeafTypes == {Leaf(k) : k \in LeafKinds} \cup {timeType, ipType, uriType}

\* Go field names are distinct within a struct: the i-th field's name.
FieldName(i) == <<<<"A">>, <<"B">>, <<"C">>, <<"D">>>>[i]

Omit == <<"o", "m", "i", "t", "e", "m", "p", "t", "y">>

\* The json tags of the input fields: none, `a`, `a,omitempty`, `b`,
\* `,omitempty`.
JsonTagSets ==
    {<<>>,
     <<Tag("json", <<"a">>)>>,
     <<Tag("json", <<"a", ",">> \o Omit)>>,
     <<Tag("json", <<"b">>)>>,
     <<Tag("json", <<",">> \o Omit)>>}

\* The fields of the structs that vary the names and the omitempty marker:
\* an int under each json tag, and one field of an unsupported kind.
PlainFields(i) ==
    {Field(FieldName(i), Leaf("int"), j) : j \in JsonTagSets}
        \cup {Field(FieldName(i), Leaf("func"), <<Tag("json", <<"a">>)>>)}

RECURSIVE PlainFieldSeqs(_)
\* The sequences of n plain fields.
PlainFieldSeqs(n) ==
    IF n = 0 THEN {<<>>}
    ELSE {Append(fs, f) : fs \in PlainFieldSeqs(n - 1), f \in PlainFields(n)}

PlainStructs ==
    {StructOf(fs) : fs \in UNION {PlainFieldSeqs(n) : n \in 0..MaxFields}}

\* The texts of the tags of the input fields.
TagTexts ==
    {<<>>, <<"x">>, <<"0">>, <<"5">>, <<"-", "5">>, <<"+", "7">>,
     <<"0", "7">>, <<"1", ".", "5">>, <<" ", "1">>, <<"1", "5", "0">>,
     <<"a", ",", "b", ",", "c">>, <<"1", ",", "2", ",", "3">>,
     <<"1", ",", "x">>, <<"t", "r", "u", "e">>, <<"n", "u", "l", "l">>,
     <<"\"", "x", "\"">>, <<"1", "e", "2">>}

TagKeys == {TagOrder[i] : i \in 1..Len(TagOrder)}

\* The tags besides json of the input fields: none; enum, default, example
\* and minimum with each text; every other integer key with an integer
\* and with a text that is none; the verbatim keys; the pair minimum:"0"
\* maximum:"150".
TagSets ==
    {<<>>, <<Tag("minimum", <<"0">>), Tag("maximum", <<"1", "5", "0">>)>>}
        \cup {<<Tag(k, v)>> : k \in {"enum", "default", "example", "minimum"},
                              v \in TagTexts}
        \cup {<<Tag(k, v)>> : k \in IntKeys \ {"minimum"},
                              v \in {<<"5">>, <<"x">>}}
        \cup {<<Tag(k, v)>> : k \in TagKeys \ (IntKeys \cup {"enum", "default", "example"}),
                              v \in {<<"x">>, <<"t", "r", "u", "e">>}}

\* The types of the tagged fields.
TaggedFieldTypes ==
    {Leaf("int"), Leaf("uint8"), PtrTo(Leaf("uint")), Leaf("string"),
     PtrTo(Leaf("string")), Leaf("float64"), Leaf("bool"), ipType, timeType,
     SliceOf(Leaf("int")), SliceOf(ipType), MapOf(Leaf("int"))}

\* The structs of one tagged field, named `a`.
TaggedStructs ==
    {StructOf(<<Field(FieldName(1), t, <<Tag("json", <<"a">>)>> \o tag)>>) :
        t \in TaggedFieldTypes, tag \in TagSets}

\* The types one wrapper around t gives.
Wrap(t) ==
    {PtrTo(t), SliceOf(t), ArrayOf(t), MapOf(t),
     StructOf(<<Field(FieldName(1), t, <<>>)>>)}

RECURSIVE Wrapped(_)
\* The leaf types and the plain structs under at most n wrappers.
Wrapped(n) ==
    IF n = 0 THEN LeafTypes \cup PlainStructs
    ELSE LET W == Wrapped(n - 1) IN W \cup UNION {Wrap(t) : t \in W}

\* The inputs: those, and the tagged structs bare and under one wrapper.
InputTypes ==
    Wrapped(MaxWrap) \cup TaggedStructs \cup UNION {Wrap(t) : t \in TaggedStructs}

---------------------------------------------------------------------------
(* One call of GenerateSchema on an input type.                            *)

NoResult == Fail("")

Init ==
    /\ typ \in InputTypes
    /\ result = NoResult
    /\ pc = "start"
    /\ defs = <<>>
    /\ stack = <<>>
    /\ ret = NoResult
    /\ wpc = "idle"

\* The caller's `schema, err := GenerateSchema(t)`.
Generate ==
    /\ pc = "start"
    /\ result' = GenerateSchema(typ)
    /\ pc' = "done"
    /\ UNCHANGED <<typ, defs, stack, ret, wpc>>

Next == Generate

Spec == Init /\ [][Next]_vars

---------------------------------------------------------------------------
(* What the properties below read of a finished call.                      *)

Done == pc = "done"
Succeeded == Done /\ result.err = "" /\ result.schema # <<>>
Out == result.schema[1]

\* A struct type the struct branch walks field by field.
IsPlainStruct(t) == t.kind = "struct" /\ t \notin {timeType, uriType}

FieldIdx == 1..Len(typ.fields)

\* The properties and required of a schema, empty when absent.
PropsOf(s) == IF s.Properties = <<>> THEN <<>> ELSE s.Properties[1]
RequiredOf(s) == IF s.Required = <<>> THEN <<>> ELSE s.Required[1]
InRequired(s, n) == \E k \in 1..Len(RequiredOf(s)) : RequiredOf(s)[k] = n

\* The text of t before its first comma.
FirstComponent(t) ==
    LET commas == {j \in 1..Len(t) : t[j] = ","}
    IN  IF commas = {} THEN t ELSE SubSeq(t, 1, Min(commas) - 1)

\* Whether the field's json tag carries the omitempty marker after its
\* first component.
Marked(f) ==
    LET t == Get(f.tag, "json")
        commas == {j \in 1..Len(t) : t[j] = ","}
    IN  \E j \in commas :
            \E k \in (commas \cup {Len(t) + 1}) :
                /\ k > j
                /\ \A c \in commas : ~(j < c /\ c < k)
                /\ SubSeq(t, j + 1, k - 1) = Omit

\* The field is the last one stored under its property name: the schema
\* properties holds under that name is this field's.
LastOfName(i) ==
    \A j \in FieldIdx : j > i => PropertyName(typ.fields[j]) # PropertyName(typ.fields[i])

\* The type under the pointers of t.
RECURSIVE StripPtr(_)
StripPtr(t) == IF t.kind = "ptr" THEN StripPtr(t.elem[1]) ELSE t

\* Whether the schema of t has type string.
IsStringTyped(t) ==
    LET u == StripPtr(t)
    IN  u.kind = "string" \/ u \in {ipType, timeType, uriType}

\* C1: the key a field's schema is stored under is the first component of
\* its json tag when the field has one, else the field's declared name.
C1_KeyIsTagOrName ==
    (Succeeded /\ IsPlainStruct(typ)) =>
        \A i \in FieldIdx :
            LET f == typ.fields[i]
                key == IF Lookup(f.tag, "json").ok
                       THEN FirstComponent(Get(f.tag, "json")) ELSE f.name
            IN  key \in DOMAIN PropsOf(Out)

\* C2 as stated: a field without the marker has its name in required, a
\* field with the marker has its name absent from required, for every
\* combination of fields.  (Read on the structs whose fields all carry a
\* json tag that names them, where the property name is not in question.)
C2_Original ==
    (/\ Succeeded /\ IsPlainStruct(typ)
     /\ \A i \in FieldIdx : FirstComponent(Get(typ.fields[i].tag, "json")) # <<>>) =>
        \A i \in FieldIdx :
            LET f == typ.fields[i]
            IN  IF Marked(f) THEN ~InRequired(Out, PropertyName(f))
                ELSE InRequired(Out, PropertyName(f))

\* C2, amended: a field without the marker has its name in required; a
\* field with the marker has its name absent from required unless another
\* field of the struct that lacks the marker has the same property name.
C2_RequiredByMarker ==
    (Succeeded /\ IsPlainStruct(typ)) =>
        \A i \in FieldIdx :
            LET f == typ.fields[i]
                shared == \E j \in FieldIdx :
                            /\ ~Marked(typ.fields[j])
                            /\ PropertyName(typ.fields[j]) = PropertyName(f)
            IN  IF Marked(f) /\ ~shared THEN ~InRequired(Out, PropertyName(f))
                ELSE InRequired(Out, PropertyName(f))

C2_Witness ==
    /\ Succeeded /\ IsPlainStruct(typ)
    /\ \E i, j \in FieldIdx :
        /\ Marked(typ.fields[i]) /\ ~Marked(typ.fields[j])
        /\ PropertyName(typ.fields[i]) = <<"a">>
        /\ PropertyName(typ.fields[j]) = <<"a">>
        /\ RequiredOf(Out) = <<<<"a">>>>

\* Whether an integer tag of the field holds text that is no integer.
BadIntTag(f) ==
    \E k \in IntKeys :
        LET t == Get(f.tag, k)
            d == IF Len(t) > 0 /\ t[1] \in {"+", "-"} THEN 2 ELSE 1
        IN  /\ Lookup(f.tag, k).ok
            /\ ~(d <= Len(t) /\ \A x \in d..Len(t) : IsDigit(t[x]))

\* Whether an enum, default or example tag of a field whose schema is not
\* of type string holds text that is no literal.
BadValueTag(f) ==
    /\ ~IsStringTyped(f.type)
    /\ \/ /\ Lookup(f.tag, "enum").ok
          /\ \E x \in 1..Len(Split(Get(f.tag, "enum"))) :
                ~JSONUnmarshal(Split(Get(f.tag, "enum"))[x]).ok
       \/ \E k \in {"default", "example"} :
            Lookup(f.tag, k).ok /\ ~JSONUnmarshal(Get(f.tag, k)).ok

RECURSIVE Fails(_)
\* Whether the depth-first walk of t meets a failure: a type of unsupported
\* kind or a malformed tag, below struct fields, slice and array elements
\* and pointer targets (the special types and maps are not walked into).
Fails(t) ==
    IF t \in {ipType, timeType, uriType} THEN FALSE
    ELSE IF t.kind = "struct"
    THEN \E i \in 1..Len(t.fields) :
            Fails(t.fields[i].type) \/ BadIntTag(t.fields[i]) \/ BadValueTag(t.fields[i])
    ELSE IF t.kind \in {"slice", "array", "ptr"} THEN Fails(t.elem[1])
    ELSE t.kind \in
            {"uintptr", "complex64", "complex128", "chan", "func",
             "interface", "unsafe.Pointer"}

\* C3: a failure anywhere in the walk makes the call return an error at
\* every enclosing level; an error comes with no schema and a schema with
\* no error.
C3_FailFast ==
    Done =>
        /\ Fails(typ) => result.err # ""
        /\ result.err # "" => result.schema = <<>>
        /\ result.schema # <<>> => result.err = ""
        /\ result.schema # <<>> \/ result.err # ""

C3_Witness ==
    /\ Done /\ result = Fail("atoi")
    /\ typ.kind = "slice" /\ typ.elem[1].kind = "struct"
    /\ BadIntTag(typ.elem[1].fields[1])

\* C4: GenerateSchema(pointer to T) returns exactly what GenerateSchema(T)
\* returns, the same schema or the same error.
C4_PointerTransparent ==
    Done => GenerateSchema(PtrTo(typ)) = result

C4_Witness ==
    /\ Succeeded /\ typ.kind = "ptr" /\ IsPlainStruct(typ.elem[1])
    /\ Len(typ.elem[1].fields) > 0
    /\ Out.Type = "object" /\ Out.Properties # <<>>
    /\ GenerateSchema(PtrTo(typ)) = Ok(Out)

\* The kinds of Go's unsigned integers.
UnsignedKinds == {"uint", "uint8", "uint16", "uint32", "uint64", "uintptr"}

\* The minimum of an unsigned field: the minimum tag's integer, else 0.
MinimumOf(f) ==
    LET t == Get(f.tag, "minimum")
        d == IF t[1] \in {"+", "-"} THEN 2 ELSE 1
        n == NumVal(t, d, Len(t) + 1)
    IN  IF ~Lookup(f.tag, "minimum").ok THEN 0
        ELSE IF t[1] = "-" THEN 0 - n ELSE n

\* What C5 says of the unsigned kinds in K.
UnsignedMinimum(K) ==
    /\ (Done /\ StripPtr(typ).kind \in K /\ StripPtr(typ).name = "") =>
            /\ Succeeded
            /\ Out.Type = "integer" /\ Out.Minimum = <<0>>
    /\ (Succeeded /\ IsPlainStruct(typ)) =>
            \A i \in FieldIdx :
                LET f == typ.fields[i]
                    u == StripPtr(f.type)
                IN  (LastOfName(i) /\ u.kind \in K /\ u.name = "") =>
                        LET s == PropsOf(Out)[PropertyName(f)]
                        IN  s.Type = "integer" /\ s.Minimum = <<MinimumOf(f)>>

\* C5 as stated: every type of an unsigned integer kind, also behind
\* pointers, gets type integer and minimum 0, and as a field the minimum
\* of its minimum tag when it has one.
C5_Original == UnsignedMinimum(UnsignedKinds)

\* C5, amended: the same of the kinds uint, uint8, uint16, uint32 and
\* uint64; a uintptr is of no supported kind.
C5_UnsignedMinimum ==
    /\ UnsignedMinimum(UnsignedKinds \ {"uintptr"})
    /\ (Done /\ StripPtr(typ) = Leaf("uintptr")) => result = Fail("unsupported")

C5_Witness ==
    /\ Succeeded /\ IsPlainStruct(typ) /\ Len(typ.fields) = 1
    /\ typ.fields[1].type = PtrTo(Leaf("uint"))
    /\ Get(typ.fields[1].tag, "minimum") = <<"-", "5">>
    /\ PropsOf(Out)[<<"a">>].Minimum = <<0 - 5>>

\* The enum a field's enum tag must give: the pieces between the commas,
\* each as text on a schema of type string, each as the literal it spells
\* otherwise.
ExpectedEnum(f) ==
    LET pieces == Split(Get(f.tag, "enum"))
    IN  [x \in 1..Len(pieces) |->
            IF IsStringTyped(f.type) THEN StringValue(pieces[x])
            ELSE JSONUnmarshal(pieces[x]).v]

\* C6: the enum of a field is its enum tag's pieces in order, raw text on a
\* schema of type string (which never fails), parsed literals otherwise,
\* and one piece that is no literal fails the whole call.
C6_EnumCoercion ==
    (Done /\ IsPlainStruct(typ)) =>
        \A i \in FieldIdx :
            LET f == typ.fields[i]
                text == Get(f.tag, "enum")
            IN  Lookup(f.tag, "enum").ok =>
                /\ (Succeeded /\ LastOfName(i)) =>
                        LET enum == PropsOf(Out)[PropertyName(f)].Enum
                        IN  /\ enum = <<ExpectedEnum(f)>>
                            /\ (text = <<"a", ",", "b", ",", "c">> /\ IsStringTyped(f.type)) =>
                                    enum = <<<<StringValue(<<"a">>), StringValue(<<"b">>),
                                              StringValue(<<"c">>)>>>>
                            /\ (text = <<"1", ",", "2", ",", "3">> /\ ~IsStringTyped(f.type)) =>
                                    enum = <<<<IntValue(1), IntValue(2), IntValue(3)>>>>
                /\ (IsStringTyped(f.type) /\ Len(typ.fields) = 1) => Succeeded
                /\ BadValueTag(f) => result = Fail("json")

C6_Witness ==
    /\ Succeeded /\ IsPlainStruct(typ) /\ Len(typ.fields) = 1
    /\ typ.fields[1].type = Leaf("int")
    /\ Get(typ.fields[1].tag, "enum") = <<"1", ",", "2", ",", "3">>
    /\ PropsOf(Out)[<<"a">>].Enum = <<<<IntValue(1), IntValue(2), IntValue(3)>>>>

\* C7: a struct's schema has type object; properties is set iff the struct
\* has a field; required is set iff a field lacks the marker, and is never
\* an empty sequence.
C7_ObjectShape ==
    (Succeeded /\ IsPlainStruct(typ)) =>
        /\ Out.Type = "object"
        /\ Out.Properties # <<>> <=> Len(typ.fields) > 0
        /\ Out.Properties # <<>> => DOMAIN Out.Properties[1] # {}
        /\ Out.Required # <<>> <=> \E i \in FieldIdx : ~Marked(typ.fields[i])
        /\ Out.Required # <<>> => Len(Out.Required[1]) > 0

C7_Witness ==
    /\ Succeeded /\ IsPlainStruct(typ) /\ Len(typ.fields) = 2
    /\ \A i \in FieldIdx : Marked(typ.fields[i])
    /\ Out.Properties # <<>> /\ Out.Required = <<>>

RECURSIVE Nodes(_)
\* Every node of a schema tree: the root, the nodes below items and below
\* each value of properties.
Nodes(s) ==
    {s} \cup (IF s.Items = <<>> THEN {} ELSE Nodes(s.Items[1]))
        \cup UNION {Nodes(PropsOf(s)[n]) : n \in DOMAIN PropsOf(s)}

\* C9: every node of a returned schema tree has items iff its type is
\* array.
C9_ItemsIffArray ==
    Succeeded => \A n \in Nodes(Out) : n.Items # <<>> <=> n.Type = "array"

C9_Witness ==
    /\ Succeeded /\ typ.kind = "struct" /\ Len(typ.fields) = 1
    /\ typ.fields[1].type = SliceOf(ipType)
    /\ Lookup(typ.fields[1].tag, "maxItems").ok
    /\ \E n \in Nodes(Out) : n.Type = "array" /\ n.Items # <<>>
    /\ \E n \in Nodes(Out) : n.Format = <<"i", "p", "v", "4">> /\ n.Items = <<>>

\* The schema that holds a type and a format and nothing else.
TypeAndFormat(ty, fmt) == [EmptySchema EXCEPT !.Type = ty, !.Format = fmt]

\* The schema the spec gives the special type t.
OverrideOf(t) ==
    IF t = ipType THEN TypeAndFormat("string", <<"i", "p", "v", "4">>)
    ELSE IF t = timeType
    THEN TypeAndFormat("string", <<"d", "a", "t", "e", "-", "t", "i", "m", "e">>)
    ELSE TypeAndFormat("string", <<"u", "r", "i">>)

\* C10: a special type yields exactly its type and format, with no items,
\* properties or required, at the top level, behind a pointer, as a slice
\* or array element and as the type of a field without tags.
C10_SpecialOverride ==
    Done =>
        \A sp \in {ipType, timeType, uriType} :
            /\ typ \in {sp, PtrTo(sp), PtrTo(PtrTo(sp))} => result = Ok(OverrideOf(sp))
            /\ typ \in {SliceOf(sp), ArrayOf(sp)} =>
                    /\ Succeeded
                    /\ Out.Type = "array" /\ Out.Items = <<OverrideOf(sp)>>
            /\ (IsPlainStruct(typ) /\ Len(typ.fields) = 1
                    /\ typ.fields[1].type = sp /\ typ.fields[1].tag = <<>>) =>
                    /\ Succeeded
                    /\ PropsOf(Out)[PropertyName(typ.fields[1])] = OverrideOf(sp)

C10_Witness ==
    /\ Succeeded /\ typ = SliceOf(ipType)
    /\ Out.Items = <<TypeAndFormat("string", <<"i", "p", "v", "4">>)>>

---------------------------------------------------------------------------
(* The recursion of GenerateSchema call by call, on named types that may   *)
(* refer to themselves.  A frame is one activation of GenerateSchema: its  *)
(* type t, where it stands ("enter": at its first line, "await": in a      *)
(* recursive call), and the field loop's i, properties and required.       *)

TypeNames == {"T1", "T2"}

\* The reference to the named type n of defs.
Ref(n) == [kind |-> "ref", name |-> n, elem |-> <<>>, fields |-> <<>>]

\* The reflect.Type a type expression denotes.
Resolve(t) == IF t.kind = "ref" THEN Named(t.name, defs[t.name]) ELSE t

Frame(t) ==
    [t |-> Resolve(t), at |-> "enter", i |-> 0, properties |-> <<>>,
     required |-> <<>>]

Top == stack[Len(stack)]

\* Whether the call on top of the stack recurses before it returns.
Descends(f) ==
    /\ ~IsIPType(f.t)
    /\ \/ KindCase(f.t.kind) \in {"seq", "ptr"}
       \/ /\ KindCase(f.t.kind) = "struct"
          /\ StructSpecial(f.t) = <<>>
          /\ Len(f.t.fields) > 0

\* The type the call on top of the stack recurses on next.
Callee(f) ==
    IF KindCase(f.t.kind) = "struct" THEN f.t.fields[f.i + 1].type
    ELSE f.t.elem[1]

\* return v: the frame is popped and its caller finds v; the outermost
\* return ends the walk.
Return(v) ==
    /\ stack' = SubSeq(stack, 1, Len(stack) - 1)
    /\ ret' = v
    /\ wpc' = IF Len(stack) = 1 THEN "done" ELSE "run"

\* GenerateSchema(callee): the caller waits in its frame, below the new one.
Call(f) ==
    /\ stack' = Append([stack EXCEPT ![Len(stack)] =
                            [f EXCEPT !.at = "await", !.i = f.i + 1]],
                       Frame(Callee(f)))
    /\ ret' = NoResult
    /\ wpc' = "run"

\* A call that returns without recursing: a special type, a scalar kind, a
\* map, a struct without fields, an unsupported kind.
WLeaf ==
    /\ wpc = "run" /\ Top.at = "enter" /\ ~Descends(Top)
    /\ Return(GenerateSchema(Top.t))
    /\ UNCHANGED <<typ, result, pc, defs>>

\* A call that recurses on its first field or on its element.
WDescend ==
    /\ wpc = "run" /\ Top.at = "enter" /\ Descends(Top)
    /\ Len(stack) < MaxStack
    /\ Call(Top)
    /\ UNCHANGED <<typ, result, pc, defs>>

\* After the iteration of the field loop ended in st: the return of its
\* error, the return after the last field, or the next field's call.
WFieldNext(st) ==
    IF st.err # "" THEN Return(Fail(st.err))
    ELSE IF Top.i = Len(Top.t.fields)
    THEN Return(Ok(StructFinal(st.properties, st.required)))
    ELSE /\ Len(stack) < MaxStack
         /\ Call([Top EXCEPT !.properties = st.properties,
                             !.required = st.required])

\* GenerateSchema(f.Type) has returned into the field loop: the rest of the
\* iteration, then the next field's call, or the return after the loop.
WFieldDone ==
    /\ wpc = "run" /\ Top.at = "await" /\ KindCase(Top.t.kind) = "struct"
    /\ WFieldNext(FieldStep(Top.t.fields[Top.i], ret, Top.properties, Top.required))
    /\ UNCHANGED <<typ, result, pc, defs>>

\* GenerateSchema(t.Elem()) has returned into the slice/array or the
\* pointer case.
WElemDone ==
    /\ wpc = "run" /\ Top.at = "await" /\ KindCase(Top.t.kind) \in {"seq", "ptr"}
    /\ Return(IF KindCase(Top.t.kind) = "seq" THEN SeqCase(ret) ELSE PtrCase(ret))
    /\ UNCHANGED <<typ, result, pc, defs>>

\* A call with the stack exhausted: the runtime ends the program, and the
\* outermost call never returns.
WOverflow ==
    /\ wpc = "run" /\ Len(stack) = MaxStack
    /\ \/ Top.at = "enter" /\ Descends(Top)
       \/ /\ Top.at = "await" /\ KindCase(Top.t.kind) = "struct"
          /\ Top.i < Len(Top.t.fields)
          /\ FieldStep(Top.t.fields[Top.i], ret, Top.properties, Top.required).err = ""
    /\ wpc' = "overflow"
    /\ UNCHANGED <<typ, result, pc, defs, stack, ret>>

\* The types of the fields of the named structs.
WalkFields(i) ==
    {Field(FieldName(i), t, <<>>) :
        t \in {Leaf("int"), Leaf("func"), PtrTo(Ref("T1")), MapOf(Ref("T1")),
               Ref("T2")}}
        \cup {Field(FieldName(i), Leaf("int"), <<Tag("minimum", <<"x">>)>>)}

RECURSIVE WalkFieldSeqs(_)
WalkFieldSeqs(n) ==
    IF n = 0 THEN {<<>>}
    ELSE {Append(fs, f) : fs \in WalkFieldSeqs(n - 1), f \in WalkFields(n)}

\* What T1 may be defined as.
WalkBodies ==
    {StructOf(fs) : fs \in UNION {WalkFieldSeqs(n) : n \in 0..MaxFields}}
        \cup UNION {{PtrTo(e), SliceOf(e), ArrayOf(e), MapOf(e)} :
                        e \in {Leaf("int"), Leaf("func"), Ref("T1"), Ref("T2")}}

\* What T2 may be defined as.
WalkBodies2 ==
    {Leaf("int"), PtrTo(Ref("T1")), SliceOf(Ref("T1")), ArrayOf(Ref("T1")),
     MapOf(Ref("T1")),
     StructOf(<<Field(FieldName(1), Ref("T1"), <<>>)>>),
     StructOf(<<Field(FieldName(1), Leaf("int"), <<>>),
                Field(FieldName(2), PtrTo(Ref("T1")), <<>>)>>),
     StructOf(<<Field(FieldName(1), Leaf("func"), <<>>),
                Field(FieldName(2), PtrTo(Ref("T1")), <<>>)>>)}

RECURSIVE RefsIn(_, _)
\* The named types a type expression refers to along the edges in E
\* ("field", "ptr", "slice", "array", "map").
RefsIn(t, E) ==
    IF t.kind = "ref" THEN {t.name}
    ELSE IF t.kind = "struct"
    THEN IF "field" \in E
         THEN UNION {RefsIn(t.fields[i].type, E) : i \in 1..Len(t.fields)}
         ELSE {}
    ELSE IF t.kind \in E THEN RefsIn(t.elem[1], E)
    ELSE {}

RECURSIVE ReachFrom(_, _, _, _)
\* The named types reached from those in S by one to n definitions.
ReachFrom(d, S, E, n) ==
    LET one == UNION {RefsIn(d[m], E) : m \in S}
    IN  IF n <= 1 THEN one ELSE one \cup ReachFrom(d, one, E, n - 1)

\* Whether a named type that T1 is or reaches refers to itself along E.
CycleAlong(d, E) ==
    \E m \in {"T1"} \cup ReachFrom(d, {"T1"}, E, Cardinality(TypeNames)) :
        m \in ReachFrom(d, {m}, E, Cardinality(TypeNames))

AllEdges == {"field", "ptr", "slice", "array", "map"}

\* The edges GenerateSchema recurses along: not into a map's element.
FollowedEdges == AllEdges \ {"map"}

\* Go rejects a type that contains itself with no indirection.
ValidDefs(d) ==
    \A m \in TypeNames : m \notin ReachFrom(d, {m}, {"field", "array"}, Cardinality(TypeNames))

WalkDefs ==
    {d \in [TypeNames -> WalkBodies \cup WalkBodies2] :
        d["T1"] \in WalkBodies /\ d["T2"] \in WalkBodies2 /\ ValidDefs(d)}

InitWalk ==
    /\ typ = Ref("T1")
    /\ result = NoResult
    /\ pc = "idle"
    /\ defs \in WalkDefs
    /\ stack = <<Frame(typ)>>
    /\ ret = NoResult
    /\ wpc = "run"

NextWalk == WLeaf \/ WDescend \/ WFieldDone \/ WElemDone \/ WOverflow

\* A call that can take a step does: the program is sequential and runs on.
SpecWalk == InitWalk /\ [][NextWalk]_vars /\ WF_vars(NextWalk)

---------------------------------------------------------------------------
(* What the properties below read of the walk.                             *)

\* A named type is on the stack twice: the walk has come back to a type it
\* is still inside.
Reentered ==
    \E i, j \in 1..Len(stack) :
        i < j /\ stack[i].t.name \in TypeNames /\ stack[i].t = stack[j].t

\* No named type that T1 is or reaches along the followed edges holds a
\* type of unsupported kind or a malformed tag.
ErrorFree ==
    \A m \in {"T1"} \cup ReachFrom(defs, {"T1"}, FollowedEdges, Cardinality(TypeNames)) :
        ~Fails(defs[m])

RECURSIVE Expand(_)
\* The type expression with its references replaced by their definitions,
\* along the followed edges.
Expand(t) ==
    IF t.kind = "ref" THEN Named(t.name, Expand(defs[t.name]))
    ELSE IF t.kind = "struct"
    THEN [t EXCEPT !.fields =
            [i \in 1..Len(t.fields) |->
                [t.fields[i] EXCEPT !.type = Expand(t.fields[i].type)]]]
    ELSE IF t.kind \in {"ptr", "slice", "array"}
    THEN [t EXCEPT !.elem = <<Expand(t.elem[1])>>]
    ELSE t

\* The walk returns what GenerateSchema, as one function, gives.
WalkAgrees ==
    (wpc = "done" /\ ~CycleAlong(defs, FollowedEdges)) =>
        ret = GenerateSchema(Expand(typ))

\* C8 as stated: a type that refers to itself, directly or through a chain
\* of struct-field, pointer, slice/array or map edges, never returns.
C8_Original == CycleAlong(defs, AllEdges) => wpc # "done"

\* C8, amended: the call returns for every type that does not come back to
\* itself along struct-field, pointer and slice/array edges (acyclic types,
\* and types that refer to themselves only through a map's element, which
\* is not walked); it never returns once the walk re-enters a type it is
\* inside, which it does for every such cycle unless an unsupported kind or
\* a malformed tag ends the walk first; and the stack is exhausted only so.
C8_ReturnsUnlessReentered ==
    /\ (~CycleAlong(defs, FollowedEdges)) ~> (wpc = "done")
    /\ []((CycleAlong(defs, FollowedEdges) /\ ErrorFree) => wpc # "done")
    /\ [][Reentered => (Reentered' /\ wpc' # "done")]_vars
    /\ [](wpc = "overflow" => Reentered)

C8_Witness ==
    /\ wpc = "done" /\ ret.err = ""
    /\ CycleAlong(defs, AllEdges) /\ ~CycleAlong(defs, FollowedEdges)
    /\ "T1" \in RefsIn(defs["T1"], {"field", "map"})

============================================================================
